---- MODULE Spec2Model ----
(***************************************************************************)
(* A model of script/utils/data_recorder.py: the DataRecorder, its pending  *)
(* buffer (self.data), its known-key index (self.existing_keys), its        *)
(* row-store handle (self.conn) and the artifact at self.output_file; and   *)
(* of script/base/base_spider.py: BaseSpider.save_data, which runs one      *)
(* recorder per requested format; and of the paging loop of                 *)
(* script/easynomad_spider.py: EasyNomadSpider.crawl.                       *)
(***************************************************************************)
EXTENDS Integers, Sequences, FiniteSets, TLC

VARIABLES
    output_ext,     \* extension of self.output_file: "csv", "json", "md", "db"
    constructed,    \* TRUE once __init__ returned normally
    data,           \* self.data, the pending buffer
    existing_keys,  \* self.existing_keys, the known-key index
    conn,           \* self.conn: "none" (no attribute), "open", "closed"
    file,           \* content of the artifact at self.output_file
    md_file,        \* content of the artifact at record_to_markdown's md_file_path
    out,            \* what the last call printed, by kind of message
    raised,         \* TRUE when the last call left through an exception
    recorded_data,  \* BaseSpider.recorded_data, as the dictionaries save_data makes of it
    artifacts,      \* save_data: the artifact at output_file + extension, by extension
    get_list        \* EasyNomadSpider.crawl: the frame of get_list() and the calls it made

vars == <<output_ext, constructed, data, existing_keys, conn, file, md_file, out, raised,
          recorded_data, artifacts, get_list>>

\* the fields of the spider, which no call on a recorder touches
spider_vars == <<recorded_data, artifacts, get_list>>

-----------------------------------------------------------------------------
(* Bounds *)

MaxBatch == 2       \* longest list handed to add_data
MaxData == 2        \* longest pending buffer explored
MaxRows == 2        \* most data rows an artifact is let grow to
MaxFailLine == 1    \* an injected write failure strikes after at most this many lines
MaxFormats == 2     \* longest save_formats list handed to save_data
MaxPage == 3        \* the API returns an empty list from this page on, at the latest

-----------------------------------------------------------------------------
(* Python values: a value carries its type, so that "1" and 1 differ. *)

PyStr(s) == [t |-> "str", v |-> s]
PyNone == [t |-> "none", v |-> ""]

\* an int value, written by its decimal digits: str(value) is s, and the int
\* is equal to no str
PyInt(s) == [t |-> "int", v |-> s]

\* a list value, [s]: a value that cannot be a member of a set
PyList(s) == [t |-> "list", v |-> s]

\* hash(value) succeeds: `key_value in self.existing_keys` and
\* self.existing_keys.add(key_value) raise TypeError on a list
Hashable(value) == value.t # "list"

\* hashlib.md5(str(sorted(data.items()))).hexdigest(): a function of the
\* record's field/value pairs alone, taken to be collision free.
_generate_data_hash(item) == [t |-> "md5", v |-> item]

\* item.get(field): None when the field is missing
Get(item, field) == IF field \in DOMAIN item THEN item[field] ELSE PyNone

\* item.get(field, ''): the empty string when the field is missing
GetOrEmpty(item, field) == IF field \in DOMAIN item THEN item[field] ELSE PyStr("")

\* str(value)
PyToStr(value) == IF value.t = "none" THEN "None" ELSE value.v

\* what csv.DictWriter writes for a value: None becomes the empty cell
CsvCell(value) == IF value.t = "none" THEN "" ELSE value.v

\* what a TEXT column stores for a bound value: None stays NULL
SqlText(value) == IF value.t = "none" THEN PyNone ELSE PyStr(value.v)

primary_key == "id"

\* the field names in the order sorted() puts them
FieldOrder == <<"id", "tag", "title">>

Fields == {FieldOrder[i] : i \in 1..Len(FieldOrder)}

\* sorted(names)
Sorted(names) == SelectSeq(FieldOrder, LAMBDA f : f \in names)

RecA == [id |-> PyStr("1"), title |-> PyStr("X")]
RecB == [id |-> PyStr("1"), title |-> PyStr("Y")]
RecD == [tag |-> PyStr("T")]

\* two records that share a primary-key value and one without the field
Records == {RecA, RecB, RecD}

Range(s) == {s[i] : i \in 1..Len(s)}

SeqsUpTo(S, n) == UNION {[1..k -> S] : k \in 0..n}

\* the lists add_data is called with (the empty list included)
Batches == SeqsUpTo(Records, MaxBatch)

RecE == [id |-> PyStr(""), title |-> PyStr("X")]
RecF == [id |-> PyStr(""), title |-> PyStr("Y")]
RecU == [id |-> PyList("x"), title |-> PyStr("X")]

\* records with an empty primary-key value, next to one with a value
EmptyKeyRecords == {RecA, RecE, RecF}

EmptyKeyBatches == SeqsUpTo(EmptyKeyRecords, MaxBatch)

\* a record whose primary-key value is a list, next to well-formed ones
UnhashableRecords == {RecA, RecD, RecU}

UnhashableBatches == SeqsUpTo(UnhashableRecords, MaxBatch)

RecI == [id |-> PyInt("2"), title |-> PyStr("X")]

\* a record whose primary-key value is an int, next to one with a str
TypedRecords == {RecA, RecI}

TypedBatches == SeqsUpTo(TypedRecords, MaxBatch)

\* key_value of add_data: the primary-key value, or the content hash when
\* item.get(primary_key) is None
KeyOf(item) ==
    IF Get(item, primary_key) # PyNone THEN Get(item, primary_key)
    ELSE _generate_data_hash(item)

\* the union of item.keys() over the buffer
FieldsOf(items) == UNION {DOMAIN items[i] : i \in 1..Len(items)}

-----------------------------------------------------------------------------
(* Artifacts.  kind: "absent" (no file), "empty" (zero bytes, which is also a *)
(* database without tables), "garbage" (unparsable bytes), "csv", "json",     *)
(* "md", "sqlite" (a database holding the table db_table), "xlsx".            *)
(* header: the column names in file order; rows: the data rows in file order; *)
(* pk: the table declares the primary-key column PRIMARY KEY.                 *)

File(kind, header, rows, pk) == [kind |-> kind, header |-> header, rows |-> rows, pk |-> pk]

Absent == File("absent", <<>>, <<>>, FALSE)
EmptyFile == File("empty", <<>>, <<>>, FALSE)
Garbage == File("garbage", <<>>, <<>>, FALSE)

\* os.path.exists(self.output_file)
Exists(f) == f.kind # "absent"

\* the first n elements of s
Take(s, n) == SubSeq(s, 1, IF n < Len(s) THEN n ELSE Len(s))

\* the records before the first one whose key cannot be hashed
HashablePrefix(items) ==
    Take(items, Cardinality({i \in 1..Len(items) :
                                \A j \in 1..i : Hashable(KeyOf(items[j]))}))

\* row = {field: item.get(field, '') for field in fieldnames}, as DictWriter writes it
CsvRow(item, fieldnames) ==
    [f \in Range(fieldnames) |-> CsvCell(GetOrEmpty(item, f))]

\* list(csv.DictReader(f)): the data rows of a delimited-text file; a file of
\* another kind has no row that carries the columns
CsvRead(f) == IF f.kind = "csv" THEN f.rows ELSE <<>>

\* _record_to_csv, lines 219-262: the lines the writer emits, header first.
\* Both branches open the target with 'w' before anything is read back, so
\* the rows read back as existing_data come from the truncated file.
CsvWritten(f, items, keys) ==
    LET fieldnames == Sorted(FieldsOf(items))
        existing_data == IF Exists(f) /\ keys # {} THEN CsvRead(EmptyFile) ELSE <<>>
    IN  File("csv", fieldnames,
             existing_data \o [i \in 1..Len(items) |-> CsvRow(items[i], fieldnames)],
             FALSE)

\* json.load(f) of the target: the list of objects, or <<>> with ok FALSE when
\* the content is no JSON document
JsonLoad(f) ==
    IF f.kind = "json" THEN [ok |-> TRUE, rows |-> f.rows]
    ELSE [ok |-> FALSE, rows |-> <<>>]

\* _record_to_json, lines 276-292
JsonWritten(f, items, keys) ==
    LET final_data ==
            IF Exists(f) /\ keys # {} /\ JsonLoad(f).ok
            THEN JsonLoad(f).rows \o items
            ELSE items
    IN  File("json", <<>>, final_data, FALSE)

\* the headers with the filter of line 316 left out
MdHeaders_Unfiltered(items, remove_columns) == Sorted(FieldsOf(items))

\* headers of _record_to_markdown, lines 308-317
MdHeaders(items, remove_columns) ==
    Sorted({h \in FieldsOf(items) : h \notin remove_columns})

\* row = [str(item.get(header, "")) for header in headers]
MdRow(item, headers) ==
    [h \in Range(headers) |-> PyToStr(GetOrEmpty(item, h))]

\* _record_to_markdown, lines 308-333: the table written over the target
MdWritten(items, remove_columns) ==
    LET headers == MdHeaders(items, remove_columns)
    IN  File("md", headers, [i \in 1..Len(items) |-> MdRow(items[i], headers)], FALSE)

\* values = [item.get(field, '') for field in fieldnames], bound to the
\* columns named in the INSERT; a column the INSERT does not name stays NULL
SqlRow(item, fieldnames, columns) ==
    [c \in Range(columns) |->
        IF c \in Range(fieldnames) THEN SqlText(GetOrEmpty(item, c)) ELSE PyNone]

\* a plain INSERT into a table without the uniqueness constraint
SqlInsert_NoReplace(rows, row, replace, pk) == Append(rows, row)

\* one cursor.execute(insert_sql, values), lines 377-387: INSERT OR REPLACE
\* removes the row that holds the same PRIMARY KEY value (NULLs never
\* conflict); a plain INSERT appends
SqlInsert(rows, row, replace, pk) ==
    IF replace /\ pk /\ row[primary_key] # PyNone
    THEN SelectSeq(rows, LAMBDA r : r[primary_key] # row[primary_key]) \o <<row>>
    ELSE Append(rows, row)

RECURSIVE SqlInsertAll(_, _, _, _, _)
\* for item in self.data: insert, lines 372-387
SqlInsertAll(rows, items, fieldnames, columns, pk) ==
    IF items = <<>> THEN rows
    ELSE SqlInsertAll(
            SqlInsert(rows, SqlRow(Head(items), fieldnames, columns),
                      primary_key \in Range(fieldnames), pk),
            Tail(items), fieldnames, columns, pk)

\* the database after CREATE TABLE when db_table is missing, lines 357-369
SqlCreated(f, items) ==
    LET fieldnames == Sorted(FieldsOf(items))
    IN  IF f.kind = "sqlite" THEN f
        ELSE File("sqlite", fieldnames, <<>>, primary_key \in Range(fieldnames))

\* _record_to_sqlite on an open handle, lines 350-390: ok is FALSE when an
\* INSERT names a column the table lacks (sqlite3.OperationalError)
SqliteWritten(f, items) ==
    LET fieldnames == Sorted(FieldsOf(items))
        t == SqlCreated(f, items)
    IN  IF Range(fieldnames) \subseteq Range(t.header)
        THEN [ok |-> TRUE,
              file |-> File("sqlite", t.header,
                            SqlInsertAll(t.rows, items, fieldnames, t.header, t.pk), t.pk)]
        ELSE [ok |-> FALSE, file |-> t]

\* one appended sheet row: sheet.cell(row, col_idx, item.get(field, '')) for
\* each field in sorted order, lines 451-455
ExcelRow(item, fieldnames) ==
    [j \in 1..Len(fieldnames) |-> GetOrEmpty(item, fieldnames[j])]

\* _record_to_excel, lines 409-458: an existing workbook is taken to have its
\* header (has_header is TRUE whenever the file exists) and the rows are
\* appended below its last row; without a sheet named db_table the active
\* sheet is given the name and appended to; a new workbook gets the header
\* row first
ExcelWritten(f, items) ==
    LET fieldnames == Sorted(FieldsOf(items))
        rows == [i \in 1..Len(items) |-> ExcelRow(items[i], fieldnames)]
    IN  IF Exists(f)
        THEN File("xlsx", f.header, f.rows \o rows, FALSE)
        ELSE File("xlsx", fieldnames, rows, FALSE)

\* the number of lines a complete write of the artifact takes
Lines(f) ==
    CASE f.kind = "csv" -> Len(f.rows) + 1
      [] f.kind = "md" -> Len(f.rows) + 2
      [] OTHER -> 2

\* what open(..., 'w') followed by a write that fails after `written` lines
\* leaves: the target was truncated on open and holds the lines written so
\* far; a cut JSON document or workbook is unparsable
Cut(f, written) ==
    CASE written = 0 -> EmptyFile
      [] written > 0 /\ f.kind = "csv" -> File("csv", f.header, Take(f.rows, written - 1), FALSE)
      [] written > 0 /\ f.kind = "md" ->
            File("md", f.header, Take(f.rows, IF written > 2 THEN written - 2 ELSE 0), FALSE)
      [] OTHER -> Garbage

-----------------------------------------------------------------------------
(* Known-key bootstrap *)

\* _load_existing_keys, lines 128-151: only .json and .csv targets are read;
\* whatever fails while reading (the add of a key that cannot be hashed
\* included) is caught and leaves the index with the keys added so far
_load_existing_keys(f, ext) ==
    CASE ~Exists(f) -> {}
      [] Exists(f) /\ ext = "json" ->
            LET loaded == HashablePrefix(JsonLoad(f).rows)
            IN  {Get(loaded[i], primary_key) : i \in 1..Len(loaded)} \ {PyNone}
      [] Exists(f) /\ ext = "csv" ->
            {PyStr(CsvRead(f)[i][primary_key]) :
                i \in {j \in 1..Len(CsvRead(f)) :
                        /\ primary_key \in DOMAIN CsvRead(f)[j]
                        /\ CsvRead(f)[j][primary_key] # ""}}
      [] OTHER -> {}

\* a file sqlite3 can work on: a zero-byte file or a database
IsDatabase(f) == f.kind \in {"empty", "sqlite"}

\* _init_sqlite, lines 97-122: connect creates a missing file; the first
\* execute on a file that is no database raises sqlite3.DatabaseError, which
\* nothing here catches; the keys are the non-NULL values of the key column
_init_sqlite(f) ==
    [conn   |-> "open",
     file   |-> IF Exists(f) THEN f ELSE EmptyFile,
     raised |-> Exists(f) /\ ~IsDatabase(f),
     keys   |-> IF f.kind = "sqlite" /\ primary_key \in Range(f.header)
                THEN {f.rows[i][primary_key] : i \in 1..Len(f.rows)} \ {PyNone}
                ELSE {}]

\* __init__, lines 25-37
Constructed(f, ext) ==
    IF ext = "db"
    THEN [constructed |-> ~_init_sqlite(f).raised,
          existing_keys |-> _init_sqlite(f).keys,
          conn |-> "open",
          file |-> _init_sqlite(f).file]
    ELSE [constructed |-> TRUE,
          existing_keys |-> _load_existing_keys(f, ext),
          conn |-> "none",
          file |-> f]

-----------------------------------------------------------------------------
(* Admission *)

\* the keys of a list of records
AllKeys(items) == {KeyOf(items[i]) : i \in 1..Len(items)}

RECURSIVE AdmitNew_KeysAfterLoop(_, _, _)
\* the loop with line 67 left out: a key is not recorded while the list is
\* gone through, so a key repeated in the list is admitted each time
AdmitNew_KeysAfterLoop(items, new_data, keys) ==
    IF items = <<>>
    THEN [new_data |-> new_data, keys |-> keys \cup AllKeys(new_data), raised |-> FALSE]
    ELSE IF KeyOf(Head(items)) \notin keys
         THEN AdmitNew_KeysAfterLoop(Tail(items), Append(new_data, Head(items)), keys)
         ELSE AdmitNew_KeysAfterLoop(Tail(items), new_data, keys)

RECURSIVE AdmitNew(_, _, _)
\* the loop of the incremental branch, lines 55-67: the membership test of
\* line 64 raises TypeError on a key that cannot be hashed, which ends the loop
AdmitNew(items, new_data, keys) ==
    IF items = <<>> THEN [new_data |-> new_data, keys |-> keys, raised |-> FALSE]
    ELSE IF ~Hashable(KeyOf(Head(items)))
         THEN [new_data |-> new_data, keys |-> keys, raised |-> TRUE]
    ELSE IF KeyOf(Head(items)) \notin keys
         THEN AdmitNew(Tail(items), Append(new_data, Head(items)),
                       keys \cup {KeyOf(Head(items))})
         ELSE AdmitNew(Tail(items), new_data, keys)

\* add_data that takes the incremental branch whatever the flag and the index
add_data_AlwaysDedups(buffer, keys, items, incremental) ==
    IF items = <<>>
    THEN [data |-> buffer, existing_keys |-> keys, out |-> "nothing", raised |-> FALSE]
    ELSE [data |-> buffer \o AdmitNew(items, <<>>, keys).new_data,
          existing_keys |-> AdmitNew(items, <<>>, keys).keys,
          out |-> "all",
          raised |-> FALSE]

\* add_data with lines 80-84 left out: the non-incremental branch forgets
\* to record the keys
add_data_ForgetsKeys(buffer, keys, items, incremental) ==
    IF items = <<>>
    THEN [data |-> buffer, existing_keys |-> keys, out |-> "nothing", raised |-> FALSE]
    ELSE IF incremental /\ keys # {}
    THEN LET r == AdmitNew(items, <<>>, keys)
         IN  [data |-> buffer \o r.new_data,
              existing_keys |-> r.keys,
              out |-> IF r.new_data # <<>> THEN "incremental" ELSE "no_new",
              raised |-> FALSE]
    ELSE [data |-> buffer \o items, existing_keys |-> keys, out |-> "all", raised |-> FALSE]

\* add_data with the test of line 64 left out: the incremental branch
\* admits every record
add_data_NoDedup(buffer, keys, items, incremental) ==
    IF items = <<>>
    THEN [data |-> buffer, existing_keys |-> keys, out |-> "nothing", raised |-> FALSE]
    ELSE [data |-> buffer \o items,
          existing_keys |-> keys \cup AllKeys(items),
          out |-> IF incremental /\ keys # {} THEN "incremental" ELSE "all",
          raised |-> FALSE]

\* add_data, lines 47-84: the buffer, the index, the message printed and
\* whether the call left through TypeError.  The incremental branch extends
\* the buffer after its loop, so a raise inside the loop loses new_data and
\* keeps the keys added so far; the other branch extends the buffer and
\* prints first and records the keys after.
add_data(buffer, keys, items, incremental) ==
    IF items = <<>>
    THEN [data |-> buffer, existing_keys |-> keys, out |-> "nothing", raised |-> FALSE]
    ELSE IF incremental /\ keys # {}
    THEN LET r == AdmitNew(items, <<>>, keys)
         IN  IF r.raised
             THEN [data |-> buffer, existing_keys |-> r.keys, out |-> "nothing",
                   raised |-> TRUE]
             ELSE [data |-> buffer \o r.new_data,
                   existing_keys |-> r.keys,
                   out |-> IF r.new_data # <<>> THEN "incremental" ELSE "no_new",
                   raised |-> FALSE]
    ELSE [data |-> buffer \o items,
          existing_keys |-> keys \cup AllKeys(HashablePrefix(items)),
          out |-> "all",
          raised |-> HashablePrefix(items) # items]

-----------------------------------------------------------------------------
(* Flush *)

Exts == {"csv", "json", "md", "db", "xlsx"}

\* the file_format arguments tried: "auto" stands for None, "xml" for a
\* format record() does not know
FileFormats == {"auto", "markdown", "xml"}

\* the remove_columns arguments tried
RemoveSets == {{}, {"title"}, {"id", "tag"}}

\* what the environment does to a flush: nothing, a failing open, a write
\* that fails after some lines, a missing openpyxl
Failures ==
    {[io |-> "ok", written |-> 0], [io |-> "open_error", written |-> 0],
     [io |-> "import_error", written |-> 0]}
    \cup {[io |-> "write_error", written |-> k] : k \in 0..MaxFailLine}

\* record(), lines 182-195: the format tag, from the extension when None
ResolveFormat(file_format, ext) ==
    IF file_format # "auto" THEN file_format
    ELSE CASE ext = "db" -> "sqlite"
           [] ext = "csv" -> "csv"
           [] ext = "json" -> "json"
           [] ext = "md" -> "markdown"
           [] ext = "xlsx" -> "excel"
           [] OTHER -> "json"

\* a text artifact written with open(..., 'w') inside try/except, under the
\* environment's failure: lines 228-265, 290-295, 331-336
TextFlushed(f, full, fail) ==
    CASE fail.io = "ok" -> [file |-> full, out |-> "saved"]
      [] fail.io = "write_error" -> [file |-> Cut(full, fail.written), out |-> "error"]
      [] OTHER -> [file |-> f, out |-> "error"]

\* a file openpyxl.load_workbook reads: "xlsx" is a workbook with a sheet
\* named db_table, whose cells header and rows are; "workbook" is one
\* without such a sheet, header and rows being the cells of its active sheet
IsWorkbook(f) == f.kind \in {"xlsx", "workbook"}

\* _record_to_excel under the environment's failure, lines 405-463:
\* load_workbook raises on a file that is no workbook
ExcelFlushed(f, items, fail) ==
    IF fail.io = "ok" /\ (Exists(f) => IsWorkbook(f))
    THEN [file |-> ExcelWritten(f, items), out |-> "saved"]
    ELSE IF fail.io = "write_error" /\ (Exists(f) => IsWorkbook(f))
    THEN [file |-> Cut(ExcelWritten(f, items), fail.written), out |-> "error"]
    ELSE [file |-> f, out |-> "error"]

\* _record_to_sqlite, lines 345-396.  Without a handle _init_sqlite runs
\* first; on a closed handle execute raises, and so does the rollback of the
\* except clause, which leaves record() through sqlite3.ProgrammingError.
\* CREATE TABLE is not undone by the rollback.
SqliteFlushed(f, items, keys, cn, fail) ==
    LET init == _init_sqlite(f)
        g == IF cn = "none" THEN init.file ELSE f
        keys1 == IF cn = "none" THEN keys \cup init.keys ELSE keys
        cn1 == IF cn = "none" THEN "open" ELSE cn
    IN  IF cn = "closed"
        THEN [file |-> f, existing_keys |-> keys, conn |-> cn, out |-> "error", raised |-> TRUE]
        ELSE IF ~IsDatabase(g)
        THEN [file |-> g, existing_keys |-> keys1, conn |-> cn1, out |-> "error", raised |-> FALSE]
        ELSE IF fail.io = "ok"
        THEN [file |-> SqliteWritten(g, items).file, existing_keys |-> keys1, conn |-> cn1,
              out |-> IF SqliteWritten(g, items).ok THEN "saved" ELSE "error",
              raised |-> FALSE]
        ELSE [file |-> SqlCreated(g, items), existing_keys |-> keys1, conn |-> cn1,
              out |-> "error", raised |-> FALSE]

\* the failures that can strike a flush in the given format
Strikes(fmt, full, fail) ==
    CASE fail.io = "ok" -> TRUE
      [] fail.io = "import_error" -> fmt = "excel"
      [] fail.io = "open_error" -> fmt \in {"csv", "json", "markdown", "excel"}
      [] OTHER ->
            \/ fmt = "sqlite" /\ fail.written = 0
            \/ fmt \in {"csv", "json", "markdown", "excel"} /\ fail.written < Lines(full)

\* record(file_format, remove_columns) with a non-empty buffer, lines 198-209
Flushed(fmt, f, items, keys, cn, remove_columns, fail) ==
    LET text(full) == TextFlushed(f, full, fail) @@
                      [existing_keys |-> keys, conn |-> cn, raised |-> FALSE]
    IN  CASE fmt = "csv" -> text(CsvWritten(f, items, keys))
          [] fmt = "json" -> text(JsonWritten(f, items, keys))
          [] fmt = "markdown" -> text(MdWritten(items, remove_columns))
          [] fmt = "sqlite" -> SqliteFlushed(f, items, keys, cn, fail)
          [] fmt = "excel" -> ExcelFlushed(f, items, fail) @@
                              [existing_keys |-> keys, conn |-> cn, raised |-> FALSE]
          [] OTHER -> [file |-> f, existing_keys |-> keys, conn |-> cn,
                       out |-> "unsupported", raised |-> FALSE]

\* the artifact a complete write in the format would leave
Full(fmt, f, items, keys, remove_columns) ==
    CASE fmt = "csv" -> CsvWritten(f, items, keys)
      [] fmt = "json" -> JsonWritten(f, items, keys)
      [] fmt = "markdown" -> MdWritten(items, remove_columns)
      [] fmt = "excel" -> IF Exists(f) => IsWorkbook(f) THEN ExcelWritten(f, items) ELSE f
      [] OTHER -> f

-----------------------------------------------------------------------------
(* The recorder *)

\* the artifacts a first run can find at its target path
InitFiles == {Absent, Garbage}

\* crawl() not called yet.  pc: "idle", "loop" (inside while True), "done";
\* page and all_data are the locals of get_list(); requested is the sequence
\* of page arguments get_data was called with; start_page and max_pages are
\* the arguments of crawl(), 0 standing for None
NotCrawling ==
    [pc |-> "idle", page |-> 1, all_data |-> <<>>, requested |-> <<>>,
     start_page |-> 0, max_pages |-> 0]

\* no spider at work: nothing crawled, no artifact of save_data
NoSpider ==
    /\ recorded_data = <<>>
    /\ artifacts = [ext \in Exts |-> Absent]
    /\ get_list = NotCrawling

\* DataRecorder(output_file) on a target found as one of files, output_file
\* having one of the extensions exts
InitWith(exts, files) ==
    \E ext \in exts, f \in files :
        /\ NoSpider
        /\ output_ext = ext
        /\ constructed = Constructed(f, ext).constructed
        /\ data = <<>>
        /\ existing_keys = Constructed(f, ext).existing_keys
        /\ conn = Constructed(f, ext).conn
        /\ file = Constructed(f, ext).file
        /\ md_file = Absent
        /\ out = "constructed"
        /\ raised = ~Constructed(f, ext).constructed

\* DataRecorder(output_file) on a target that is missing or unparsable
InitOn(exts) == InitWith(exts, InitFiles)

Init == InitOn(Exts)

\* a later run: DataRecorder(output_file) on the artifact as it now is
Construct ==
    /\ constructed' = Constructed(file, output_ext).constructed
    /\ data' = <<>>
    /\ existing_keys' = Constructed(file, output_ext).existing_keys
    /\ conn' = Constructed(file, output_ext).conn
    /\ file' = Constructed(file, output_ext).file
    /\ out' = "constructed"
    /\ raised' = ~Constructed(file, output_ext).constructed
    /\ UNCHANGED <<output_ext, md_file>>
    /\ UNCHANGED spider_vars

\* add_data(items, incremental)
AddData(items, incremental) ==
    /\ constructed
    /\ Len(data) + Len(items) <= MaxData
    /\ \E r \in {add_data(data, existing_keys, items, incremental)} :
            /\ data' = r.data
            /\ existing_keys' = r.existing_keys
            /\ out' = r.out
            /\ raised' = r.raised
    /\ UNCHANGED <<output_ext, constructed, conn, file, md_file>>
    /\ UNCHANGED spider_vars

\* clear_data() that also empties the known-key index
ClearData_ForgetsKeys ==
    /\ constructed
    /\ data' = <<>>
    /\ existing_keys' = {}
    /\ out' = "cleared"
    /\ raised' = FALSE
    /\ UNCHANGED <<output_ext, constructed, conn, file, md_file>>
    /\ UNCHANGED spider_vars

\* clear_data(), lines 86-90
ClearData ==
    /\ constructed
    /\ data' = <<>>
    /\ out' = "cleared"
    /\ raised' = FALSE
    /\ UNCHANGED <<output_ext, constructed, existing_keys, conn, file, md_file>>
    /\ UNCHANGED spider_vars

\* record(file_format, remove_columns), lines 177-209
Record(file_format, remove_columns, fail) ==
    LET fmt == ResolveFormat(file_format, output_ext)
    IN  /\ constructed
        /\ IF data = <<>>
           THEN /\ fail.io = "ok"
                /\ out' = "no_data"
                /\ raised' = FALSE
                /\ UNCHANGED <<existing_keys, conn, file>>
           ELSE /\ Strikes(fmt, Full(fmt, file, data, existing_keys, remove_columns), fail)
                /\ fmt # "markdown" => remove_columns = {}
                /\ \E r \in {Flushed(fmt, file, data, existing_keys, conn,
                                     remove_columns, fail)} :
                        /\ Len(r.file.rows) <= MaxRows
                        /\ file' = r.file
                        /\ existing_keys' = r.existing_keys
                        /\ conn' = r.conn
                        /\ out' = r.out
                        /\ raised' = r.raised
        /\ UNCHANGED <<output_ext, constructed, data, md_file>>
        /\ UNCHANGED spider_vars

\* record_to_markdown that hands the buffer over: it is empty afterwards
RecordToMarkdown_DrainsBuffer(remove_columns, fail) ==
    /\ constructed
    /\ data # <<>>
    /\ fail.io = "ok"
    /\ md_file' = MdWritten(data, remove_columns)
    /\ data' = <<>>
    /\ out' = "saved"
    /\ raised' = FALSE
    /\ UNCHANGED <<output_ext, constructed, existing_keys, conn, file>>
    /\ UNCHANGED spider_vars

\* record_to_markdown(md_file_path, remove_columns), lines 488-494: the table
\* goes to md_file_path; _record_to_markdown returns at once on an empty buffer
RecordToMarkdown(remove_columns, fail) ==
    LET full == MdWritten(data, remove_columns)
        r == TextFlushed(md_file, full, fail)
    IN  /\ constructed
        /\ IF data = <<>>
           THEN /\ fail.io = "ok"
                /\ out' = "no_data"
                /\ UNCHANGED md_file
           ELSE /\ Strikes("markdown", full, fail)
                /\ md_file' = r.file
                /\ out' = r.out
        /\ raised' = FALSE
        /\ UNCHANGED <<output_ext, constructed, data, existing_keys, conn, file>>
        /\ UNCHANGED spider_vars

\* close() that raises when the handle is closed already
close_RaisesWhenClosed(cn) ==
    [conn |-> IF cn = "none" THEN "none" ELSE "closed", raised |-> cn = "closed"]

\* close() that forgets the handle
close_LeavesHandle(cn) == [conn |-> cn, raised |-> FALSE]

\* close(), lines 469-471: the handle after the call and whether the call
\* raised; sqlite3 lets a closed connection be closed again
close(cn) ==
    [conn |-> IF cn = "none" THEN "none" ELSE "closed", raised |-> FALSE]

\* close()
Close ==
    /\ constructed
    /\ conn' = close(conn).conn
    /\ out' = "closed"
    /\ raised' = close(conn).raised
    /\ UNCHANGED <<output_ext, constructed, data, existing_keys, file, md_file>>
    /\ UNCHANGED spider_vars

\* no failure injected
NoFailure == [io |-> "ok", written |-> 0]

\* one call on the recorder, or a later run on the same target
Lifecycle(formats, removes, fails) ==
    \/ Construct
    \/ \E items \in Batches, incremental \in BOOLEAN : AddData(items, incremental)
    \/ ClearData
    \/ \E file_format \in formats, remove_columns \in removes, fail \in fails :
            Record(file_format, remove_columns, fail)
    \/ Close

\* record() picks the format from the extension; the environment may fail it
Next == Lifecycle({"auto"}, {{}}, Failures)

Spec == Init /\ [][Next]_vars

\* record(file_format, remove_columns) with the format named by the caller
NextFormat == Lifecycle(FileFormats \ {"auto"}, RemoveSets, {NoFailure})

SpecFormat == Init /\ [][NextFormat]_vars

\* what the environment does to record_to_markdown: nothing, or a write that
\* fails right after the open
MarkdownFailures == {NoFailure, [io |-> "write_error", written |-> 0]}

\* the recorder of a .db target used with record_to_markdown next to
\* add_data, clear_data, record and close
NextMarkdown ==
    \/ \E items \in Batches, incremental \in BOOLEAN : AddData(items, incremental)
    \/ ClearData
    \/ \E fail \in MarkdownFailures : RecordToMarkdown({"title"}, fail)
    \/ Record("auto", {}, NoFailure)
    \/ Close

SpecMarkdown == InitOn({"db"}) /\ [][NextMarkdown]_vars

\* record(file_format='sqlite') on a target whose extension names another
\* format: the row-store handle is opened by the first flush
NextSqlite == Lifecycle({"sqlite"}, {{}}, {NoFailure})

SpecSqlite == InitOn({"csv", "json"}) /\ [][NextSqlite]_vars

\* runs on a .json target, with lists that may hold a record whose
\* primary-key value cannot be hashed
NextJson ==
    \/ Construct
    \/ \E items \in UnhashableBatches, incremental \in BOOLEAN : AddData(items, incremental)
    \/ ClearData
    \/ Record("auto", {}, NoFailure)

SpecJson == InitOn({"json"}) /\ [][NextJson]_vars

\* a workbook of another program: its only sheet, "Sheet1", has a header and a row
ForeignWorkbook == File("workbook", <<"tag">>, << <<PyStr("T")>> >>, FALSE)

\* a workbook whose sheet named db_table has no cell
EmptySheet == File("xlsx", <<>>, <<>>, FALSE)

\* runs on an .xlsx target that is missing or was made by another program
NextExcel ==
    \/ Construct
    \/ \E items \in Batches, incremental \in BOOLEAN : AddData(items, incremental)
    \/ ClearData
    \/ Record("auto", {}, NoFailure)

SpecExcel == InitWith({"xlsx"}, {Absent, ForeignWorkbook, EmptySheet}) /\ [][NextExcel]_vars

\* successive runs on one .csv or .db target, each a recorder that is
\* constructed, given lists with incremental=True, flushed and closed
NextRuns ==
    \/ Construct
    \/ \E items \in Batches : AddData(items, TRUE)
    \/ Record("auto", {}, NoFailure)
    \/ Close

SpecRuns == InitOn({"csv", "db"}) /\ [][NextRuns]_vars

\* one recorder on a .json target, given lists with incremental=True and
\* flushed any number of times
NextOneRecorder ==
    \/ \E items \in Batches : AddData(items, TRUE)
    \/ ClearData
    \/ Record("auto", {}, NoFailure)

SpecOneRecorder == InitOn({"json"}) /\ [][NextOneRecorder]_vars

\* add_data on the recorder of a fresh .csv target, with lists that may hold
\* a record whose primary-key value cannot be hashed
NextAdmit ==
    \/ \E items \in UnhashableBatches, incremental \in BOOLEAN : AddData(items, incremental)
    \/ ClearData

SpecAdmit == InitOn({"csv"}) /\ [][NextAdmit]_vars

\* runs on a .csv, .json or .db target with records whose primary-key value
\* is the empty string
NextKeys ==
    \/ Construct
    \/ \E items \in EmptyKeyBatches, incremental \in BOOLEAN : AddData(items, incremental)
    \/ ClearData
    \/ Record("auto", {}, NoFailure)

SpecKeys == InitOn({"csv", "json", "db"}) /\ [][NextKeys]_vars

\* runs on a .csv or .db target with records whose primary-key value is an
\* int or a str
NextTypes ==
    \/ Construct
    \/ \E items \in TypedBatches, incremental \in BOOLEAN : AddData(items, incremental)
    \/ ClearData
    \/ Record("auto", {}, NoFailure)

SpecTypes == InitOn({"csv", "db"}) /\ [][NextTypes]_vars

\* one whole run on the artifact f of a .csv target: DataRecorder(path),
\* add_data(batch, incremental=True), record(), close(); the artifact it
\* leaves and the records it admitted
Run(f, batch) ==
    LET recorder == Constructed(f, "csv")
        added == add_data(<<>>, recorder.existing_keys, batch, TRUE)
    IN  [file |-> IF added.data = <<>> THEN recorder.file
                  ELSE Flushed("csv", recorder.file, added.data, added.existing_keys,
                               recorder.conn, {}, NoFailure).file,
         admitted |-> added.data]

-----------------------------------------------------------------------------
(* BaseSpider.save_data *)

\* the formats save_data knows: the keys of format_extensions, lines 118-124
SaveFormats == {"csv", "json", "sqlite", "excel", "markdown"}

\* format_extensions[fmt], without the dot
format_extensions(fmt) ==
    CASE fmt = "csv" -> "csv"
      [] fmt = "json" -> "json"
      [] fmt = "sqlite" -> "db"
      [] fmt = "excel" -> "xlsx"
      [] fmt = "markdown" -> "md"

\* one turn of the loop for a known format, lines 127-141, on the artifact f
\* at file_path: a recorder is constructed, given the dictionaries, flushed
\* and closed; nothing in the turn catches what the constructor or add_data
\* raise
SaveOne(fmt, f, data_dicts, incremental, remove_columns, fail) ==
    LET ext == format_extensions(fmt)
        recorder == Constructed(f, ext)
        added == add_data(<<>>, recorder.existing_keys, data_dicts, incremental)
        flushed == Flushed(fmt, recorder.file, added.data, added.existing_keys,
                           recorder.conn,
                           IF fmt = "markdown" THEN remove_columns ELSE {}, fail)
    IN  IF ~recorder.constructed \/ added.raised
        THEN [file |-> recorder.file, raised |-> TRUE]
        ELSE IF added.data = <<>>
        THEN [file |-> recorder.file, raised |-> FALSE]
        ELSE [file |-> flushed.file, raised |-> flushed.raised]

RECURSIVE SaveAll(_, _, _, _, _, _)
\* for fmt in save_formats, lines 115-143: a format save_data does not know is
\* reported and passed over; an exception ends the loop
SaveAll(save_formats, files, data_dicts, incremental, remove_columns, fails) ==
    IF save_formats = <<>> THEN [artifacts |-> files, raised |-> FALSE]
    ELSE IF Head(save_formats) \notin SaveFormats
    THEN SaveAll(Tail(save_formats), files, data_dicts, incremental, remove_columns,
                 Tail(fails))
    ELSE LET ext == format_extensions(Head(save_formats))
             one == SaveOne(Head(save_formats), files[ext], data_dicts, incremental,
                            remove_columns, Head(fails))
             files1 == [files EXCEPT ![ext] = one.file]
         IN  IF one.raised THEN [artifacts |-> files1, raised |-> TRUE]
             ELSE SaveAll(Tail(save_formats), files1, data_dicts, incremental,
                          remove_columns, Tail(fails))

\* the formats asked of save_data here; "xml" is one it does not know
FormatsTried == {"csv", "sqlite", "xml"}

\* the save_formats arguments: lists of different formats
FormatLists ==
    {l \in SeqsUpTo(FormatsTried, MaxFormats) :
        l # <<>> /\ \A i, j \in 1..Len(l) : i # j => l[i] # l[j]}

\* the remove_columns arguments of save_data: None, as by default
SaveRemoves == {{}}

\* what the environment does to the flush of one format: nothing, or a write
\* that fails right after the open
SaveFailures == {NoFailure, [io |-> "write_error", written |-> 0]}

\* no recorder outside save_data; the artifacts of an earlier program may be
\* missing or unparsable
InitSave ==
    /\ output_ext = "csv"
    /\ constructed = FALSE
    /\ data = <<>>
    /\ existing_keys = {}
    /\ conn = "none"
    /\ file = Absent
    /\ md_file = Absent
    /\ out = "nothing"
    /\ raised = FALSE
    /\ recorded_data = <<>>
    /\ get_list = NotCrawling
    /\ artifacts \in [Exts -> InitFiles]
    /\ \A ext \in Exts \ {format_extensions(fmt) : fmt \in FormatsTried \cap SaveFormats} :
            artifacts[ext] = Absent

\* crawl(): self.recorded_data = all_data (easynomad_spider.py, line 84)
Crawl(all_data) ==
    /\ recorded_data' = all_data
    /\ out' = "crawled"
    /\ raised' = FALSE
    /\ UNCHANGED <<output_ext, constructed, data, existing_keys, conn, file, md_file, artifacts,
                   get_list>>

\* save_data(output_file, save_formats, incremental, remove_columns=...),
\* lines 92-143
SaveData(save_formats, incremental, remove_columns, fails) ==
    \E r \in {SaveAll(save_formats, artifacts, recorded_data, incremental,
                     remove_columns, fails)} :
        /\ IF recorded_data = <<>>
           THEN /\ out' = "no_data"
                /\ raised' = FALSE
                /\ UNCHANGED artifacts
           ELSE /\ \A ext \in Exts : Len(r.artifacts[ext].rows) <= MaxRows
                /\ artifacts' = r.artifacts
                /\ out' = "save_data"
                /\ raised' = r.raised
        /\ UNCHANGED <<output_ext, constructed, data, existing_keys, conn, file, md_file,
                       recorded_data, get_list>>

\* a spider that crawls and saves, again and again, on one output prefix
NextSave ==
    \/ \E all_data \in Batches : Crawl(all_data)
    \/ \E save_formats \in FormatLists, incremental \in BOOLEAN,
          remove_columns \in SaveRemoves :
            \E fails \in [1..Len(save_formats) -> SaveFailures] :
                SaveData(save_formats, incremental, remove_columns, fails)

SpecSave == InitSave /\ [][NextSave]_vars

RecC == [id |-> PyStr("2"), title |-> PyStr("Y")]

\* the lists a crawl leaves in recorded_data: records that carry the
\* primary-key field, with two different values
KeyedBatches == SeqsUpTo({RecA, RecB, RecC}, MaxBatch)

\* formats = ['csv', 'json', 'sqlite', 'excel', 'markdown'] of main()
\* (easynomad_spider.py, line 100)
MainFormats == <<"csv", "json", "sqlite", "excel", "markdown">>

\* a first run of the spider: no artifact on the output prefix yet
InitMain == InitSave /\ artifacts = [ext \in Exts |-> Absent]

\* crawl_and_save again and again with incremental=True, the formats of
\* main() and no failing write
NextMain ==
    \/ \E all_data \in KeyedBatches : Crawl(all_data)
    \/ SaveData(MainFormats, TRUE, {}, [i \in 1..Len(MainFormats) |-> NoFailure])

SpecMain == InitMain /\ [][NextMain]_vars

-----------------------------------------------------------------------------
(* EasyNomadSpider.crawl *)

\* items of response.json()['data']
RawA == [jobCode |-> PyStr("1"), jobTitle |-> PyStr("X")]
RawC == [jobCode |-> PyStr("2"), jobTitle |-> PyStr("Y")]

\* what the API answers for one page: an empty list, or a list of items
PageData == {<<>>, <<RawA>>, <<RawC>>}

\* JobEntity(id=item['jobCode'], title=item['jobTitle'], ...), line 83, as
\* the dictionary save_data makes of it
JobEntity(item) == [id |-> item.jobCode, title |-> item.jobTitle]

\* the start_page and max_pages arguments of crawl(): None (0) or a number
PageArgs == 0..(MaxPage - 1)

\* crawl(start_page, max_pages) up to the first get_data: get_list() sets
\* page = 1 and all_data = [], lines 72-74; neither argument is read
CrawlCall(start_page, max_pages) ==
    /\ get_list.pc # "loop"
    /\ get_list' = [pc |-> "loop", page |-> 1, all_data |-> <<>>, requested |-> <<>>,
                    start_page |-> start_page, max_pages |-> max_pages]
    /\ out' = "crawling"
    /\ raised' = FALSE
    /\ UNCHANGED <<output_ext, constructed, data, existing_keys, conn, file, md_file,
                   recorded_data, artifacts>>

\* one turn of while True, lines 75-80: data = get_data(page); page += 1;
\* an empty answer ends the loop, and crawl() then sets recorded_data to the
\* entities made of all_data, lines 82-85
GetData(answer) ==
    /\ get_list.pc = "loop"
    /\ answer # <<>> => get_list.page < MaxPage
    /\ \E all_data \in {get_list.all_data \o answer} :
          /\ get_list' = [get_list EXCEPT
                            !.requested = Append(@, get_list.page),
                            !.page = @ + 1,
                            !.pc = IF answer = <<>> THEN "done" ELSE "loop",
                            !.all_data = all_data]
          /\ IF answer = <<>>
             THEN /\ recorded_data' = [i \in 1..Len(all_data) |-> JobEntity(all_data[i])]
                  /\ out' = "crawled"
             ELSE /\ UNCHANGED recorded_data
                  /\ out' = "crawling"
    /\ raised' = FALSE
    /\ UNCHANGED <<output_ext, constructed, data, existing_keys, conn, file, md_file,
                   artifacts>>

\* crawl() called again and again with any arguments, against an API that
\* answers each page with items or with an empty list
NextCrawl ==
    \/ \E start_page, max_pages \in PageArgs : CrawlCall(start_page, max_pages)
    \/ \E answer \in PageData : GetData(answer)

SpecCrawl == InitMain /\ [][NextCrawl]_vars

-----------------------------------------------------------------------------
(* Properties *)

\* no two records of the buffer have the same computed key
DistinctKeys(items) ==
    \A i, j \in 1..Len(items) : i # j => KeyOf(items[i]) # KeyOf(items[j])

\* C1: within one recorder's lifetime (every step but a construction) the
\* known-key index only grows: add_data, record, clear_data and close never
\* remove a key from existing_keys.
C1_KeysOnlyGrow ==
    [][out' # "constructed" => existing_keys \subseteq existing_keys']_vars

\* a key admitted by add_data is still known after clear_data emptied the buffer
C1_Witness ==
    /\ out = "cleared"
    /\ data = <<>>
    /\ existing_keys # {}

\* C2 as claimed: after any mix of add_data calls the pending buffer never
\* holds two records whose computed keys are equal.
C2_BufferKeysDistinct == DistinctKeys(data)

\* C2 as amended: an add_data call that takes the incremental path
\* (incremental=True on a non-empty index) keeps the buffer's keys distinct and
\* known: from a buffer whose keys are pairwise distinct and all in the index
\* it leads to such a buffer again.
C2_IncrementalKeepsKeysDistinct ==
    [][(/\ out' \in {"incremental", "no_new"}
        /\ DistinctKeys(data)
        /\ AllKeys(data) \subseteq existing_keys)
       => (DistinctKeys(data') /\ AllKeys(data') \subseteq existing_keys')]_vars

\* the incremental path has admitted a record next to one already buffered
C2_Witness ==
    /\ out = "incremental"
    /\ Len(data) >= 2
    /\ DistinctKeys(data)

\* C3: dedup idempotence: from every state, for every non-empty list R,
\* add_data(R, incremental=True) made twice in a row admits nothing the
\* second time: the buffer is as long after the second call as after the first.
C3_DedupIdempotent ==
    \A R \in Batches \ {<<>>} :
        LET first == add_data(data, existing_keys, R, TRUE)
            second == add_data(first.data, first.existing_keys, R, TRUE)
        IN  /\ Len(second.data) = Len(first.data)
            /\ second.out = "no_new"

\* an incremental add_data that found every record of its list known
C3_Witness ==
    /\ out = "no_new"
    /\ data # <<>>
    /\ AllKeys(data) \subseteq existing_keys

\* the key column of a tabular-markup artifact, as keys
MdKeys(f) ==
    IF f.kind = "md" /\ primary_key \in Range(f.header)
    THEN {PyStr(f.rows[i][primary_key]) : i \in 1..Len(f.rows)} \ {PyStr("")}
    ELSE {}

\* C4 as claimed: a fresh recorder constructed on a .md file that an earlier
\* recorder flushed the keys K to admits, on add_data(R, incremental=True),
\* exactly the records of R whose key is not in K.
C4_MarkdownRerunDedup ==
    (/\ output_ext = "md"
     /\ out = "constructed"
     /\ MdKeys(file) # {})
    => \A R \in {B \in Batches : DistinctKeys(B)} :
          add_data(data, existing_keys, R, TRUE).data
            = SelectSeq(R, LAMBDA item : KeyOf(item) \notin MdKeys(file))

\* a row of an artifact laid out under another header
Reproject(row, header) ==
    [c \in Range(header) |-> IF c \in DOMAIN row THEN row[c] ELSE ""]

\* C5 as claimed: after record() to an existing readable CSV or Markdown
\* artifact its data rows are the rows readable in it before the flush
\* together with the rows of the pending buffer: no persisted row is lost.
C5_FlushKeepsPersistedRows ==
    [][(/\ out' = "saved"
        /\ file.kind \in {"csv", "md"}
        /\ file'.kind = file.kind)
       => /\ \A i \in 1..Len(file.rows) :
                Reproject(file.rows[i], file'.header) \in Range(file'.rows)
          /\ \A i \in 1..Len(data) :
                Reproject(MdRow(data[i], Sorted(DOMAIN data[i])), file'.header)
                    \in Range(file'.rows)]_vars

\* C6 as claimed: a flush to a CSV or Markdown artifact that fails leaves the
\* target with its complete previous content or the complete new content.
C6_FailedFlushAllOrNothing ==
    [][(/\ out' = "error"
        /\ ResolveFormat("auto", output_ext) \in {"csv", "markdown"})
       => \/ file' = file
          \/ file' = Full(ResolveFormat("auto", output_ext), file, data, existing_keys, {})]_vars

\* C7 as claimed: constructing a recorder on a .csv, .json or .db target
\* whose content cannot be parsed does not raise and leaves the index empty,
\* and a following add_data(R, incremental=True) appends all of R.
C7_CorruptTargetTolerated ==
    (/\ out = "constructed"
     /\ file.kind = "garbage"
     /\ output_ext \in {"csv", "json", "db"})
    => /\ ~raised
       /\ constructed
       /\ existing_keys = {}
       /\ \A R \in Batches : add_data(data, existing_keys, R, TRUE).data = R

\* the index of the last record of the buffer that carries the key value k
LastWithKey(items, k) ==
    CHOOSE j \in 1..Len(items) :
        /\ Get(items[j], primary_key) = k
        /\ \A n \in (j + 1)..Len(items) : Get(items[n], primary_key) # k

\* C8: row-store replace semantics: after a flush of the buffer to the
\* row-store, every primary-key value of a buffered record has exactly one row
\* in the table, and that row holds the fields of the last record buffered
\* under the key (after {id: K1, title: A}, a flush, {id: K1, title: B} added
\* with incremental=False and a second flush: one row, title B).
C8_RowStoreLastWins ==
    (/\ out = "saved"
     /\ output_ext = "db"
     /\ file.kind = "sqlite")
    => \A i \in 1..Len(data) :
          primary_key \in DOMAIN data[i]
          => LET k == data[i][primary_key]
                 item == data[LastWithKey(data, k)]
                 hits == {n \in 1..Len(file.rows) : file.rows[n][primary_key] = SqlText(k)}
             IN  /\ Cardinality(hits) = 1
                 /\ \A n \in hits : \A c \in DOMAIN item :
                        file.rows[n][c] = SqlText(item[c])

\* the table holds one row for key "1", with the title admitted last
C8_Witness ==
    /\ out = "saved"
    /\ output_ext = "db"
    /\ data = <<RecA, RecB>>
    /\ file.kind = "sqlite"
    /\ Len(file.rows) = 1
    /\ file.rows[1][primary_key] = PyStr("1")
    /\ file.rows[1]["title"] = PyStr("Y")

\* the cell of a row under a header field: by name, or by position in a sheet
Cell(f, row, h) ==
    IF f.kind = "xlsx"
    THEN LET p == CHOOSE q \in 1..Len(f.header) : f.header[q] = h
         IN  IF p <= Len(row) THEN PyToStr(row[p]) ELSE ""
    ELSE IF f.kind = "sqlite" THEN (IF row[h] = PyNone THEN "" ELSE row[h].v)
    ELSE row[h]

\* the number of cells of a row
Width(f, row) == IF f.kind = "xlsx" THEN Len(row) ELSE Cardinality(DOMAIN row)

\* a later record of the buffer carries the same primary-key value, so that
\* the row-store replaces the row of record i
Superseded(items, i) ==
    \E n \in (i + 1)..Len(items) :
        GetOrEmpty(items[n], primary_key) = GetOrEmpty(items[i], primary_key)

\* C9 as claimed: in every tabular format the flushed artifact accounts for
\* the union of the buffered records' field names: no field of a buffered
\* record is missing from the header, every row has one cell per header field,
\* and every buffered record (in the row-store: every one not replaced by a
\* later record of its key) has a row with its values, empty where it lacks
\* the field.
C9_MissingFieldSafety ==
    (/\ out = "saved"
     /\ file.kind \in {"csv", "md", "sqlite", "xlsx"})
    => /\ FieldsOf(data) \subseteq Range(file.header)
       /\ \A n \in 1..Len(file.rows) : Width(file, file.rows[n]) = Len(file.header)
       /\ \A i \in {j \in 1..Len(data) : file.kind = "sqlite" => ~Superseded(data, j)} :
          \E n \in 1..Len(file.rows) :
             \A h \in Range(file.header) :
                Cell(file, file.rows[n], h)
                    = (IF h \in DOMAIN data[i] THEN PyToStr(data[i][h]) ELSE "")

\* C10: column filter: record(file_format='markdown', remove_columns=F)
\* writes a table whose header is the sorted union of the buffered field names
\* minus F, with one row per buffered record and no cell for a field in F.
C10_ColumnFilter ==
    [][\A F \in RemoveSets :
          (data # <<>> /\ Record("markdown", F, NoFailure))
          => /\ file'.kind = "md"
             /\ file'.header = Sorted(FieldsOf(data) \ F)
             /\ Len(file'.rows) = Len(data)
             /\ \A n \in 1..Len(file'.rows) :
                    /\ DOMAIN file'.rows[n] = FieldsOf(data) \ F
                    /\ \A h \in DOMAIN file'.rows[n] :
                          file'.rows[n][h] = PyToStr(GetOrEmpty(data[n], h))]_vars

\* a table flushed without the title column that its record carries
C10_Witness ==
    /\ out = "saved"
    /\ data = <<RecA>>
    /\ file.kind = "md"
    /\ file.header = <<"id">>
    /\ file.rows = <<[id |-> "1"]>>

\* C11 as claimed: once close() has returned, every further call on the
\* recorder is a no-op and not an error: add_data leaves the buffer and the
\* index as they are, and record() neither raises nor changes the artifact.
C11_ClosedIsTerminal ==
    [][((out = "closed" \/ conn = "closed") /\ out' # "constructed")
       => /\ ~raised'
          /\ data' = data
          /\ existing_keys' = existing_keys
          /\ file' = file]_vars

\* C12: close() is idempotent and never raises: whatever state close() is
\* called in (handle open, never opened or closed; after a flush that
\* succeeded or failed) it returns normally and changes nothing but the
\* handle, and a second close() then returns normally and changes nothing.
C12_CloseIdempotent ==
    [][out' = "closed"
       => /\ ~raised'
          /\ <<data', existing_keys', file', md_file'>> = <<data, existing_keys, file, md_file>>
          /\ ~close(conn').raised
          /\ close(conn').conn = conn']_vars

\* close() has returned on a recorder of the row-store with a pending buffer
C12_Witness ==
    /\ out = "closed"
    /\ ~raised
    /\ conn = "closed"
    /\ data # <<>>
    /\ file.kind = "sqlite"
    /\ file.rows # <<>>

\* the records of a list whose key can be hashed, in order
WellFormed(items) == SelectSeq(items, LAMBDA item : Hashable(KeyOf(item)))

\* C13 as claimed: add_data on a list in which one record's key cannot be
\* computed or looked up does not raise, skips that record alone and admits
\* the others as if the bad record were absent.
C13_BadKeySkipped ==
    [][\A items \in UnhashableBatches, incremental \in BOOLEAN :
          AddData(items, incremental)
          => /\ ~raised'
             /\ data' = add_data(data, existing_keys, WellFormed(items), incremental).data
             /\ existing_keys'
                    = add_data(data, existing_keys, WellFormed(items), incremental).existing_keys]_vars

\* C17 as claimed: the key add_data uses for a record is the primary-key
\* value when the field is present and not empty and the content hash
\* otherwise, so that two different records with the empty string as
\* primary-key value have different keys.
C17_KeyDerivation ==
    \A i \in 1..Len(data) :
        KeyOf(data[i]) =
            IF primary_key \in DOMAIN data[i] /\ data[i][primary_key] \notin {PyNone, PyStr("")}
            THEN data[i][primary_key]
            ELSE _generate_data_hash(data[i])

\* the primary-key values of an artifact's rows that are not empty
NonEmptyKeys(f) ==
    CASE f.kind = "csv" ->
            {PyStr(f.rows[i][primary_key]) :
                i \in {j \in 1..Len(f.rows) : primary_key \in DOMAIN f.rows[j]}} \ {PyStr("")}
      [] f.kind = "json" ->
            {Get(f.rows[i], primary_key) : i \in 1..Len(f.rows)} \ {PyNone, PyStr("")}
      [] f.kind = "sqlite" ->
            {Get(f.rows[i], primary_key) : i \in 1..Len(f.rows)} \ {PyNone, PyStr("")}
      [] OTHER -> {}

\* C18 as claimed: right after construction on a .csv, .json or .db target
\* that is absent or readable, existing_keys is exactly the set of non-empty
\* primary-key values found in the artifact, and empty when there is none.
C18_BootstrapKeys ==
    (/\ out = "constructed"
     /\ constructed
     /\ output_ext \in {"csv", "json", "db"}
     /\ file.kind # "garbage")
    => existing_keys = NonEmptyKeys(file)

\* the positions of a list whose record is the first of the list to carry
\* its key, the key not being known
FirstUnknown(items, keys) ==
    {i \in 1..Len(items) :
        /\ KeyOf(items[i]) \notin keys
        /\ \A j \in 1..(i - 1) : KeyOf(items[j]) # KeyOf(items[i])}

\* the records of a list at the given positions, in list order
At(items, positions) ==
    [n \in 1..Cardinality(positions) |->
        items[CHOOSE i \in positions : Cardinality({j \in positions : j <= i}) = n]]

IsPrefix(s, t) == Len(s) <= Len(t) /\ SubSeq(t, 1, Len(s)) = s

\* C16: the pending buffer shrinks through clear_data alone: add_data,
\* record, record_to_markdown and close leave every buffered record in the
\* buffer, at its place, whether they succeed or fail.
C16_BufferKeptUntilCleared ==
    [][out' \notin {"cleared", "constructed"} => IsPrefix(data, data')]_vars

\* record_to_markdown has written the table of a buffer that is still pending
C16_Witness ==
    /\ out = "saved"
    /\ md_file.kind = "md"
    /\ Len(md_file.rows) = Len(data)
    /\ Len(data) = MaxData

\* C19: the row-store handle is released by close(): in every state that
\* close() has just returned in, the recorder holds no open handle, also when
\* the flush before it failed and was rolled back.
C19_HandleReleased == out = "closed" => conn # "open"

\* close() has returned after a flush that created the table and then failed:
\* the buffer is pending and no row was committed
C19_Witness ==
    /\ out = "closed"
    /\ conn = "closed"
    /\ data # <<>>
    /\ file.kind = "sqlite"
    /\ file.rows = <<>>

\* C15 as claimed: record() only reads the recorder: whatever the format
\* tag, also one that differs from the target's extension, the pending buffer
\* and the known-key index are after the call what they were before it.
C15_FlushReadsOnly ==
    [][out' \in {"saved", "error", "unsupported", "no_data"}
       => /\ data' = data
          /\ existing_keys' = existing_keys]_vars

\* C14 as claimed: save_data with several formats does not raise, and a
\* failure while one format's artifact is bootstrapped or written keeps no
\* other requested format from being written: each format whose own turn
\* succeeds leaves the artifact that turn writes.
C14_FormatsIsolated ==
    [][\A save_formats \in FormatLists, incremental \in BOOLEAN,
          remove_columns \in SaveRemoves :
          \A fails \in [1..Len(save_formats) -> SaveFailures] :
            (recorded_data # <<>>
             /\ SaveData(save_formats, incremental, remove_columns, fails))
            => /\ ~raised'
               /\ \A i \in 1..Len(save_formats) :
                     save_formats[i] \in SaveFormats
                     => LET ext == format_extensions(save_formats[i])
                            one == SaveOne(save_formats[i], artifacts[ext], recorded_data,
                                           incremental, remove_columns, fails[i])
                        IN  ~one.raised => artifacts'[ext] = one.file]_vars

\* C21: unconditional admission: from every state and for every list R,
\* add_data(R, incremental=False), and add_data(R, incremental=True) on an
\* empty index, append every record of R to the buffer, in order, records
\* with a known or repeated key included, and leave the key of every record
\* of R in the index next to the keys known before.
C21_UnconditionalAdmission ==
    \A R \in Batches, incremental \in BOOLEAN :
        (~incremental \/ existing_keys = {})
        => LET r == add_data(data, existing_keys, R, incremental)
           IN  /\ ~r.raised
               /\ r.data = data \o R
               /\ r.existing_keys = existing_keys \cup AllKeys(R)

\* the unconditional branch has buffered two records of one key
C21_Witness ==
    /\ out = "all"
    /\ Len(data) = 2
    /\ KeyOf(data[1]) = KeyOf(data[2])
    /\ KeyOf(data[1]) \in existing_keys

\* C22 as claimed: record() to a .json target leaves the array read from the
\* target before the flush followed by the pending buffer, in buffer order,
\* and the pending buffer alone when the previous content cannot be read.
C22_JsonMerge ==
    [][(output_ext = "json" /\ out' = "saved")
       => /\ file'.kind = "json"
          /\ file'.rows = (IF file.kind = "json" THEN file.rows ELSE <<>>) \o data]_vars

\* C23 as claimed: record() to an .xlsx target appends the pending rows below
\* the last row of the sheet named db_table when the workbook has that sheet
\* with a header row; in every other case (no workbook, no sheet of the
\* name, a sheet without header row) the sheet of the name is a new one that
\* holds the header row and the pending rows and nothing else.
C23_SpreadsheetMerge ==
    [][(output_ext = "xlsx" /\ out' = "saved")
       => LET fieldnames == Sorted(FieldsOf(data))
              pending == [i \in 1..Len(data) |-> ExcelRow(data[i], fieldnames)]
          IN  IF file.kind = "xlsx" /\ file.header # <<>>
              THEN file' = File("xlsx", file.header, file.rows \o pending, FALSE)
              ELSE file' = File("xlsx", fieldnames, pending, FALSE)]_vars

\* the key of a persisted row: the text of its primary-key cell, or the row
\* itself when it has no such cell or an empty one
RowKey(f, row) ==
    IF primary_key \in Range(f.header) /\ Cell(f, row, primary_key) # ""
    THEN Cell(f, row, primary_key)
    ELSE [h \in Range(f.header) |-> Cell(f, row, h)]

\* C24 as claimed: the row-store table never holds two rows of one computed
\* key, whether the primary-key field is among the columns or not.
C24_RowStoreKeysDistinct ==
    file.kind = "sqlite"
    => \A i, j \in 1..Len(file.rows) :
          i # j => RowKey(file, file.rows[i]) # RowKey(file, file.rows[j])

\* C25 as claimed: over three successive runs on one .csv path, whatever the
\* lists given to them, no run admits a record whose key was admitted and
\* flushed by an earlier one.
C25_CrossRunDedup ==
    output_ext = "csv"
    => \A b1, b2, b3 \in Batches :
          LET r1 == Run(file, b1)
              r2 == Run(r1.file, b2)
              r3 == Run(r2.file, b3)
          IN  /\ AllKeys(r2.admitted) \cap AllKeys(r1.admitted) = {}
              /\ AllKeys(r3.admitted) \cap (AllKeys(r1.admitted) \cup AllKeys(r2.admitted)) = {}

\* C26 as claimed: with one recorder on a .json target, whatever the
\* add_data(..., incremental=True) and record() calls made, the file holds
\* at most one object per key.
C26_JsonKeysDistinct == file.kind = "json" => DistinctKeys(file.rows)

\* C27 as claimed: an add_data call, also one that ends with an exception
\* partway through its list, adds to existing_keys only keys of records
\* that are in the pending buffer when it returns.
C27_IndexWithinBuffer ==
    [][out' \in {"incremental", "no_new", "all", "nothing", "error"}
       => (existing_keys' \ existing_keys) \subseteq AllKeys(data')]_vars

\* C28 as claimed: when a recorder has just been constructed on a .csv or .db
\* target, every record whose primary-key value, str or int, is held by a
\* row of the artifact has the key add_data computes for it in existing_keys.
C28_KeyRoundTrip ==
    (out = "constructed" /\ file.kind \in {"csv", "sqlite"} /\ primary_key \in Range(file.header))
    => \A item \in TypedRecords :
          (\E i \in 1..Len(file.rows) :
               Cell(file, file.rows[i], primary_key) = PyToStr(Get(item, primary_key)))
          => KeyOf(item) \in existing_keys

\* the primary-key values an artifact holds, as text
PersistedKeys(f) ==
    IF f.kind = "json"
    THEN {PyToStr(Get(f.rows[i], primary_key)) : i \in 1..Len(f.rows)}
    ELSE IF primary_key \in Range(f.header)
    THEN {Cell(f, f.rows[i], primary_key) : i \in 1..Len(f.rows)}
    ELSE {}

\* C29 as claimed: after save_data calls with incremental=True and one list
\* of formats on one output prefix, the artifacts of the requested formats
\* hold the same set of record keys.
C29_CrossFormatKeys ==
    out = "save_data"
    => \A i, j \in 1..Len(MainFormats) :
          PersistedKeys(artifacts[format_extensions(MainFormats[i])])
              = PersistedKeys(artifacts[format_extensions(MainFormats[j])])

\* C30 as claimed: crawl(start_page, max_pages) requests at most max_pages
\* pages when max_pages is given, and the first page it requests is
\* start_page when start_page is given.
C30_BoundedPagination ==
    /\ get_list.max_pages # 0 => Len(get_list.requested) <= get_list.max_pages
    /\ (get_list.start_page # 0 /\ get_list.requested # <<>>)
            => get_list.requested[1] = get_list.start_page

====
